---- MODULE Spec2Model ----
(***************************************************************************)
(* Job lifecycle of the resume-optimizer client (frontend/src/App.tsx):    *)
(* the submit handler, the SSE effect that owns the EventSource of the     *)
(* current job id, the stream callbacks, the reset button, and the route   *)
(* guard of frontend/src/main.tsx that mounts and disposes App.            *)
(***************************************************************************)
EXTENDS Integers, Sequences, FiniteSets, TLC

\* ---------------------------------------------------------------- bounds
MaxActivity == 4    \* App instances mounted plus jobs started by the server
MaxLogs == 2        \* 'log' lines accepted into the buffer

\* ------------------------------------------------------ JavaScript values
Null == "<null>"
Undefined == "<undefined>"
EmptyObject == "{}"

Truthy(v) == v \notin {Null, Undefined, ""}

\* a || b
OrElse(a, b) == IF Truthy(a) THEN a ELSE b

\* ------------------------------------------------------------- constants
MsgValidation == "Please provide both a Job URL and your base Resume PDF."
MsgUnknownStream == "Unknown error during streaming"
MsgLostConnection == "Lost connection to server"
MsgStartFailed == "Failed to start optimization job."
MsgServerError == "Server error: Internal Server Error"
MsgThrown == "Failed to fetch"
MsgBadJson == "Unexpected token < in JSON at position 0"
MsgNullBody == "Cannot read properties of null (reading 'job_id')"

\* the id the server issues for its n-th job
JobIdOf(n) == "job-" \o ToString(n)

ApiDownload(id) == "/api/download-pdf/" \o id

\* ------------------------------------------------- stream message payloads
\* event.data of one message: malformed text, the JSON literal null, or a
\* JSON object with optional fields (absent fields are Undefined).
Envelope(k, t, d, r, f) ==
    [kind |-> k, type |-> t, data |-> d, report |-> r, filename |-> f]

Payloads ==
    { Envelope("malformed", Undefined, Undefined, Undefined, Undefined),
      Envelope("null", Undefined, Undefined, Undefined, Undefined),
      Envelope("object", "ping", "x", Undefined, Undefined),
      Envelope("object", "log", "parsing", Undefined, Undefined),
      Envelope("object", "log", Undefined, Undefined, Undefined),
      Envelope("object", "complete", Undefined, "report82", "tailored.pdf"),
      Envelope("object", "complete", Undefined, Undefined, Undefined),
      Envelope("object", "complete", Undefined, "fallback", ""),
      Envelope("object", "error", "upstream timeout", Undefined, Undefined),
      Envelope("object", "error", "", Undefined, Undefined),
      Envelope("object", "error", Undefined, Undefined, Undefined) }

\* JSON.parse(event.data) followed by the property reads of the handler:
\* malformed text throws in JSON.parse, null throws at data.type.
Throws(p) == p.kind \in {"malformed", "null"}

VARIABLES
    authLoading,    \* useAuth().loading
    session,        \* useAuth().session is present
    route,          \* current location: "/" or "/login"
    mounted,        \* an App instance is mounted
    inst,           \* number of App instances mounted so far
    url,            \* App state
    resumeFile,
    status,
    errorMessage,
    jobId,
    logs,
    report,
    es,             \* index in conns of the EventSource of the live effect, 0 if none
    conns,          \* every EventSource created, in creation order
    reqs,           \* handleSubmit invocations suspended at an await
    issued,         \* job ids issued by the server so far
    downloads,      \* download URLs clicked, in order
    term,           \* first terminal event dispatched on EventSource es, or "none"
    late,           \* an event of EventSource es arrived after it was closed
    heard,          \* data of the 'log' messages dispatched on EventSource es
    garbled         \* a payload dispatched on EventSource es did not parse

appState == <<url, resumeFile, status, errorMessage, jobId, logs, report>>
authState == <<authLoading, session, route>>
vars == <<authLoading, session, route, mounted, inst, url, resumeFile, status,
          errorMessage, jobId, logs, report, es, conns, reqs, issued, downloads,
          term, late, heard, garbled>>

\* what is recorded about the stream of the live effect
stream == <<term, late, heard, garbled>>

\* ---------------------------------------------------------------- helpers
\* disabled={status === 'loading' || status === 'success'} on the inputs and
\* the submit button
Disabled(st) == st \in {"loading", "success"}

\* variant: the session is not looked at
ProtectedRouteNoSession(loading, sess) ==
    IF loading THEN "placeholder" ELSE "children"

\* what ProtectedRoute renders
ProtectedRoute(loading, sess) ==
    IF loading THEN "placeholder"
    ELSE IF ~sess THEN "navigate"
    ELSE "children"

\* eventSource.close() on the EventSource with index i (0: there is none)
Close(cs, i) ==
    IF i = 0 THEN cs ELSE [cs EXCEPT ![i].open = FALSE]

\* new EventSource(`${API_URL}/api/stream-job/${jobId}`) created by instance n
NewEventSource(id, n) ==
    [id |-> id, inst |-> n, open |-> TRUE]

\* variant: an effect that returns no cleanup
EffectCleanupNone(cs, e) == cs

\* the cleanup the SSE effect returned: closes the effect's EventSource
EffectCleanup(cs, e) == Close(cs, e)

\* variant: the status test of the guard inverted
EffectSkipsInverted(jid, st) == ~Truthy(jid) \/ st # "error"

\* the guard of the SSE effect: if (!jobId || status === 'error') return;
EffectSkips(jid, st) == ~Truthy(jid) \/ st = "error"

\* The SSE effect for a committed render whose jobId is jid (deps [jobId]):
\* when jid differs from the previous render's jobId, the previous effect's
\* cleanup runs first, then the effect body with the render's status.
\* Yields the EventSources and the live effect's EventSource.
SSEEffect(cs, e, oldJid, jid, st, n) ==
    IF jid = oldJid THEN [conns |-> cs, es |-> e]
    ELSE LET cleaned == EffectCleanup(cs, e) IN
         IF EffectSkips(jid, st) THEN [conns |-> cleaned, es |-> 0]
         ELSE [conns |-> Append(cleaned, NewEventSource(jid, n)),
               es |-> Len(cleaned) + 1]

\* the commit of a render of instance `inst` with jobId jid and status st
Commit(jid, st) ==
    LET r == SSEEffect(conns, es, jobId, jid, st, inst) IN
    /\ conns' = r.conns
    /\ es' = r.es
    /\ IF jid = jobId THEN UNCHANGED stream
       ELSE /\ term' = "none"
            /\ late' = FALSE
            /\ heard' = <<>>
            /\ garbled' = FALSE

\* ---------------------------------------------------- stream callbacks
\* The state a callback reads and writes, with what it did besides.
Snapshot ==
    [status |-> status, errorMessage |-> errorMessage, logs |-> logs,
     report |-> report, close |-> FALSE, download |-> <<>>]

\* variant: the new line is put first
OnLogPrepend(s, p) == [s EXCEPT !.logs = <<p.data>> \o @]

\* data.type === 'log'
OnLog(s, p) == [s EXCEPT !.logs = Append(@, p.data)]

\* variant: the EventSource is left open on completion
OnCompleteNoClose(s, p, jid) ==
    [s EXCEPT !.report = OrElse(p.report, EmptyObject),
              !.status = "success",
              !.download = IF Truthy(p.filename) THEN <<ApiDownload(jid)>>
                           ELSE <<>>]

\* variant: the download does not look at the filename
OnCompleteAnyFilename(s, p, jid) ==
    [s EXCEPT !.report = OrElse(p.report, EmptyObject),
              !.status = "success",
              !.close = TRUE,
              !.download = <<ApiDownload(jid)>>]

\* variant: the report of the message is recorded as it is, without default
OnCompleteNoDefault(s, p, jid) ==
    [s EXCEPT !.report = p.report,
              !.status = "success",
              !.close = TRUE,
              !.download = IF Truthy(p.filename) THEN <<ApiDownload(jid)>>
                           ELSE <<>>]

\* data.type === 'complete'; jid is the jobId the effect closed over
OnComplete(s, p, jid) ==
    [s EXCEPT !.report = OrElse(p.report, EmptyObject),
              !.status = "success",
              !.close = TRUE,
              !.download = IF Truthy(p.filename) THEN <<ApiDownload(jid)>>
                           ELSE <<>>]

\* variant: the EventSource is left open on an 'error' message
OnErrorEventNoClose(s, p) ==
    [s EXCEPT !.errorMessage = OrElse(p.data, MsgUnknownStream),
              !.status = "error"]

\* variant: the data of the message is recorded as it is, without fallback
OnErrorEventNoFallback(s, p) ==
    [s EXCEPT !.errorMessage = p.data,
              !.status = "error",
              !.close = TRUE]

\* data.type === 'error'
OnErrorEvent(s, p) ==
    [s EXCEPT !.errorMessage = OrElse(p.data, MsgUnknownStream),
              !.status = "error",
              !.close = TRUE]

\* variant: a payload that does not parse is treated as a failed stream
OnMessageSurfacing(s, p, jid) ==
    IF Throws(p)
    THEN [s EXCEPT !.errorMessage = MsgUnknownStream, !.status = "error",
                   !.close = TRUE]
    ELSE IF p.type = "log" THEN OnLog(s, p)
    ELSE IF p.type = "complete" THEN OnComplete(s, p, jid)
    ELSE IF p.type = "error" THEN OnErrorEvent(s, p)
    ELSE s

\* eventSource.onmessage
OnMessage(s, p, jid) ==
    IF Throws(p) THEN s
    ELSE IF p.type = "log" THEN OnLog(s, p)
    ELSE IF p.type = "complete" THEN OnComplete(s, p, jid)
    ELSE IF p.type = "error" THEN OnErrorEvent(s, p)
    ELSE s

\* variant: the EventSource is left to reconnect after a failure
OnErrorNoClose(s) ==
    [s EXCEPT !.errorMessage = MsgLostConnection,
              !.status = "error"]

\* variant: a failed connection also empties the log buffer
OnErrorClearsLogs(s) ==
    [s EXCEPT !.errorMessage = MsgLostConnection,
              !.status = "error",
              !.logs = <<>>,
              !.close = TRUE]

\* eventSource.onerror
OnError(s) ==
    [s EXCEPT !.errorMessage = MsgLostConnection,
              !.status = "error",
              !.close = TRUE]

\* the terminal event a payload is, "none" when the handler drops it or logs it
TerminalOf(p) ==
    IF Throws(p) THEN "none"
    ELSE IF p.type \in {"complete", "error"} THEN p.type
    ELSE "none"

\* state setters called by a callback of EventSource c take effect only while
\* the instance that created c is the mounted one
Owns(c) == mounted /\ conns[c].inst = inst

\* What callback result r of EventSource c leaves; t is the terminal event
\* dispatched ("none": not one), h the 'log' data dispatched and g whether the
\* payload failed to parse.
Dispatched(c, r, t, h, g) ==
    /\ IF Owns(c)
       THEN /\ status' = r.status
            /\ errorMessage' = r.errorMessage
            /\ logs' = r.logs
            /\ report' = r.report
       ELSE UNCHANGED <<status, errorMessage, logs, report>>
    /\ conns' = IF r.close THEN Close(conns, c) ELSE conns
    /\ downloads' = downloads \o r.download
    /\ term' = IF c = es /\ term = "none" THEN t ELSE term
    /\ heard' = IF c = es THEN heard \o h ELSE heard
    /\ garbled' = (garbled \/ (c = es /\ g))
    /\ late' = late

\* a message of stream c arrives with payload p while EventSource c is open
StreamMessage(c, p) ==
    /\ c \in 1..Len(conns) /\ conns[c].open
    /\ (~Throws(p) /\ p.type = "log") => Len(logs) < MaxLogs
    /\ Dispatched(c, OnMessage(Snapshot, p, conns[c].id), TerminalOf(p),
                  IF ~Throws(p) /\ p.type = "log" THEN <<p.data>> ELSE <<>>,
                  Throws(p))
    /\ UNCHANGED <<authState, mounted, inst, url, resumeFile, jobId, es, reqs, issued>>

\* the connection of stream c fails while EventSource c is open
StreamFailure(c) ==
    /\ c \in 1..Len(conns) /\ conns[c].open
    /\ Dispatched(c, OnError(Snapshot), "transport", <<>>, FALSE)
    /\ UNCHANGED <<authState, mounted, inst, url, resumeFile, jobId, es, reqs, issued>>

\* a message or a failure of stream c arrives after EventSource c was closed:
\* no callback is called
LateEvent(c) ==
    /\ c \in 1..Len(conns) /\ ~conns[c].open
    /\ late' = (late \/ c = es)
    /\ UNCHANGED <<authState, mounted, inst, url, resumeFile, status, errorMessage,
                   jobId, logs, report, es, conns, reqs, issued, downloads,
                   term, heard, garbled>>

\* ------------------------------------------------------------ form inputs
\* onChange of the URL input: setUrl(e.target.value)
SetUrl(u) ==
    /\ mounted /\ ~Disabled(status)
    /\ url' = u
    /\ UNCHANGED <<authState, mounted, inst, resumeFile, status, errorMessage,
                   jobId, logs, report, es, conns, reqs, issued, downloads, stream>>

\* onChange of a file input: setResumeFile(e.target.files?.[0] || null)
SetResumeFile(f) ==
    /\ mounted /\ ~Disabled(status)
    /\ resumeFile' = f
    /\ UNCHANGED <<authState, mounted, inst, url, status, errorMessage,
                   jobId, logs, report, es, conns, reqs, issued, downloads, stream>>

\* ------------------------------------------------------------ handleSubmit
\* variant: only the URL is looked at
InvalidUrlOnly(u, f) == ~Truthy(u)

\* if (!url || !resumeFile)
Invalid(u, f) == ~Truthy(u) \/ ~Truthy(f)

\* variant: the log buffer and the job id of the previous job are kept
ClearedPartly ==
    [status |-> "loading", errorMessage |-> "", logs |-> logs,
     report |-> Null, jobId |-> jobId]

\* variant: the previous error message is kept
ClearedKeepsError ==
    [status |-> "loading", errorMessage |-> errorMessage, logs |-> <<>>,
     report |-> Null, jobId |-> Null]

\* what handleSubmit sets before its first await
Cleared ==
    [status |-> "loading", errorMessage |-> "", logs |-> <<>>,
     report |-> Null, jobId |-> Null]

\* handleSubmit up to its first await (getSession): the early return on
\* missing input, else the state is cleared and the session looked up
HandleSubmit ==
    /\ mounted /\ ~Disabled(status)
    /\ IF Invalid(url, resumeFile)
       THEN /\ errorMessage' = MsgValidation
            /\ status' = "error"
            /\ UNCHANGED <<jobId, logs, report, es, conns, reqs, stream>>
       ELSE /\ status' = Cleared.status
            /\ errorMessage' = Cleared.errorMessage
            /\ logs' = Cleared.logs
            /\ report' = Cleared.report
            /\ jobId' = Cleared.jobId
            /\ Commit(Cleared.jobId, Cleared.status)
            /\ reqs' = reqs \cup {[inst |-> inst, phase |-> "session"]}
    /\ UNCHANGED <<authState, mounted, inst, url, resumeFile, issued, downloads>>

\* variant: the catch block records the message and leaves the status
CatchMessageOnly(n, msg) ==
    IF mounted /\ n = inst
    THEN /\ errorMessage' = msg
         /\ UNCHANGED status
    ELSE UNCHANGED <<errorMessage, status>>

\* the catch block of handleSubmit, run by the invocation of instance n
Catch(n, msg) ==
    IF mounted /\ n = inst
    THEN /\ errorMessage' = msg
         /\ status' = "error"
    ELSE UNCHANGED <<errorMessage, status>>

\* supabase.auth.getSession() settles: with a session or without one the
\* request is sent (fetch), when it throws the catch block runs
GetSession(q, throws) ==
    /\ q \in reqs /\ q.phase = "session"
    /\ IF throws
       THEN /\ Catch(q.inst, MsgThrown)
            /\ reqs' = reqs \ {q}
       ELSE /\ reqs' = (reqs \ {q}) \cup {[q EXCEPT !.phase = "fetch"]}
            /\ UNCHANGED <<errorMessage, status>>
    /\ UNCHANGED <<authState, mounted, inst, url, resumeFile, jobId, logs,
                   report, es, conns, issued, downloads, stream>>

\* Responses of POST /api/start-optimization. net: the request was answered;
\* ok: response.ok; body: "text" (not JSON), "null" or "object"; error and
\* job_id: the fields of an object body.
Response(net, ok, body, err, jid) ==
    [net |-> net, ok |-> ok, body |-> body, error |-> err, job_id |-> jid]

Failures ==
    { Response(FALSE, FALSE, "text", Undefined, Undefined),
      Response(TRUE, FALSE, "object", "Invalid URL", Undefined),
      Response(TRUE, FALSE, "object", Undefined, Undefined),
      Response(TRUE, FALSE, "object", "", Undefined),
      Response(TRUE, FALSE, "null", Undefined, Undefined),
      Response(TRUE, FALSE, "text", Undefined, Undefined),
      Response(TRUE, TRUE, "text", Undefined, Undefined),
      Response(TRUE, TRUE, "null", Undefined, Undefined),
      Response(TRUE, TRUE, "object", Undefined, Undefined),
      Response(TRUE, TRUE, "object", Undefined, "") }

\* the answer that carries the id of the server's n-th job
Started(n) == Response(TRUE, TRUE, "object", Undefined, JobIdOf(n))

\* variant: the error field of the body is not looked at
ThrownGeneric(rsp) ==
    IF ~rsp.net THEN MsgThrown
    ELSE IF ~rsp.ok
         THEN IF rsp.body = "object" THEN MsgStartFailed
              ELSE MsgServerError
    ELSE IF rsp.body = "text" THEN MsgBadJson
    ELSE IF rsp.body = "null" THEN MsgNullBody
    ELSE Undefined

\* the message of the Error the body of the try block throws for response
\* rsp, Undefined when it throws nothing
Thrown(rsp) ==
    IF ~rsp.net THEN MsgThrown
    ELSE IF ~rsp.ok
         THEN IF rsp.body = "object" THEN OrElse(rsp.error, MsgStartFailed)
              ELSE MsgServerError
    ELSE IF rsp.body = "text" THEN MsgBadJson
    ELSE IF rsp.body = "null" THEN MsgNullBody
    ELSE Undefined

\* variant: the job id is kept outside the component, so the answer to a
\* disposed instance's request reaches whatever is there
FetchSettlesAnyInstance(q, rsp) ==
    /\ q \in reqs /\ q.phase = "fetch"
    /\ reqs' = reqs \ {q}
    /\ IF Thrown(rsp) # Undefined
       THEN /\ Catch(q.inst, Thrown(rsp))
            /\ UNCHANGED <<jobId, es, conns, stream>>
       ELSE /\ UNCHANGED <<errorMessage, status>>
            /\ jobId' = rsp.job_id
            /\ Commit(rsp.job_id, status)
    /\ UNCHANGED <<authState, mounted, inst, url, resumeFile, logs, report, downloads>>

\* the rest of handleSubmit once fetch settles with rsp
FetchSettles(q, rsp) ==
    /\ q \in reqs /\ q.phase = "fetch"
    /\ reqs' = reqs \ {q}
    /\ IF Thrown(rsp) # Undefined
       THEN /\ Catch(q.inst, Thrown(rsp))
            /\ UNCHANGED <<jobId, es, conns, stream>>
       ELSE /\ UNCHANGED <<errorMessage, status>>
            /\ IF mounted /\ q.inst = inst
               THEN /\ jobId' = rsp.job_id
                    /\ Commit(rsp.job_id, status)
               ELSE UNCHANGED <<jobId, es, conns, stream>>
    /\ UNCHANGED <<authState, mounted, inst, url, resumeFile, logs, report, downloads>>

\* the request fails, or is answered without the id of a job
FetchFails(q, rsp) ==
    /\ rsp \in Failures
    /\ FetchSettles(q, rsp)
    /\ UNCHANGED issued

\* the server starts its next job and answers with its id
FetchSucceeds(q) ==
    /\ inst + issued < MaxActivity
    /\ FetchSettles(q, Started(issued + 1))
    /\ issued' = issued + 1

\* ------------------------------------------------------ 'Start a new job'
\* variant: the job id is kept
ResetKeepsJob ==
    /\ mounted /\ status = "success"
    /\ status' = "idle"
    /\ url' = ""
    /\ report' = Null
    /\ logs' = <<>>
    /\ UNCHANGED <<authState, mounted, inst, resumeFile, errorMessage, reqs,
                   issued, downloads, jobId, es, conns, stream>>

Reset ==
    /\ mounted /\ status = "success"
    /\ status' = "idle"
    /\ url' = ""
    /\ jobId' = Null
    /\ report' = Null
    /\ logs' = <<>>
    /\ Commit(Null, "idle")
    /\ UNCHANGED <<authState, mounted, inst, resumeFile, errorMessage, reqs,
                   issued, downloads>>

\* ------------------------------------------------------------ route guard
\* what the router renders at location rt
Rendered(rt, ld, ss) ==
    IF rt = "/" THEN ProtectedRoute(ld, ss) ELSE "login"

\* The render after the auth state or the location changed: <Navigate> moves
\* to /login, App is mounted exactly when ProtectedRoute renders its
\* children; mounting makes a new instance with the useState initial values,
\* unmounting runs the SSE effect's cleanup.
Routing(ld, ss, rt) ==
    LET shown == Rendered(rt, ld, ss) IN
    /\ authLoading' = ld
    /\ session' = ss
    /\ route' = IF shown = "navigate" THEN "/login" ELSE rt
    /\ mounted' = (shown = "children")
    /\ (shown = "children" /\ ~mounted) => inst + issued < MaxActivity
    /\ inst' = IF shown = "children" /\ ~mounted THEN inst + 1 ELSE inst
    /\ IF mounted /\ shown # "children"
       THEN /\ conns' = EffectCleanup(conns, es)
            /\ es' = 0
            /\ term' = "none"
            /\ late' = FALSE
            /\ heard' = <<>>
            /\ garbled' = FALSE
            /\ url' = ""
            /\ resumeFile' = Null
            /\ status' = "idle"
            /\ errorMessage' = ""
            /\ jobId' = Null
            /\ logs' = <<>>
            /\ report' = Null
       ELSE UNCHANGED <<conns, es, stream, url, resumeFile, status,
                        errorMessage, jobId, logs, report>>
    /\ UNCHANGED <<reqs, issued, downloads>>

\* the credential provider finishes loading, with or without a session
AuthLoaded(ss) ==
    /\ authLoading
    /\ Routing(FALSE, ss, route)

\* the session appears (sign-in on /login) or goes away (signOut, expiry)
SessionChanges ==
    /\ ~authLoading
    /\ Routing(FALSE, ~session, route)

\* the user opens the job screen again
NavigateHome ==
    /\ route = "/login"
    /\ Routing(authLoading, session, "/")

\* ------------------------------------------------------------------ spec
Init ==
    /\ authLoading = TRUE
    /\ session = FALSE
    /\ route = "/"
    /\ mounted = FALSE
    /\ inst = 0
    /\ url = ""
    /\ resumeFile = Null
    /\ status = "idle"
    /\ errorMessage = ""
    /\ jobId = Null
    /\ logs = <<>>
    /\ report = Null
    /\ es = 0
    /\ conns = <<>>
    /\ reqs = {}
    /\ issued = 0
    /\ downloads = <<>>
    /\ term = "none"
    /\ late = FALSE
    /\ heard = <<>>
    /\ garbled = FALSE

Urls == {"", "https://x"}
Files == {Null, "resume.pdf"}

Next ==
    \/ \E ss \in BOOLEAN : AuthLoaded(ss)
    \/ SessionChanges
    \/ NavigateHome
    \/ \E u \in Urls : SetUrl(u)
    \/ \E f \in Files : SetResumeFile(f)
    \/ HandleSubmit
    \/ \E q \in reqs, throws \in BOOLEAN : GetSession(q, throws)
    \/ \E q \in reqs, rsp \in Failures : FetchFails(q, rsp)
    \/ \E q \in reqs : FetchSucceeds(q)
    \/ \E c \in 1..Len(conns), p \in Payloads : StreamMessage(c, p)
    \/ \E c \in 1..Len(conns) : StreamFailure(c)
    \/ \E c \in 1..Len(conns) : LateEvent(c)
    \/ Reset

Spec == Init /\ [][Next]_vars

TypeOK ==
    /\ status \in {"idle", "loading", "success", "error"}
    /\ Len(logs) <= MaxLogs
    /\ es \in 0..Len(conns)
    /\ inst + issued <= MaxActivity

\* ================================================================ claims
Open == {c \in 1..Len(conns) : conns[c].open}

Range(f) == {f[i] : i \in DOMAIN f}

NoDuplicates(f) == \A i, j \in DOMAIN f : f[i] = f[j] => i = j

\* C1: at most one stream connection is open in every reachable state, and
\* in every step that changes the job id every connection that existed
\* before the step is closed after it (a connection for the new id is a new
\* one).
C1_AtMostOneStream ==
    /\ [](Cardinality(Open) <= 1)
    /\ [][jobId' # jobId => \A c \in 1..Len(conns) : ~conns'[c].open]_vars

\* a second job of the same App instance streams after the first was closed
C1_Witness ==
    /\ Len(conns) = 2
    /\ conns[1].inst = conns[2].inst
    /\ ~conns[1].open /\ conns[2].open
    /\ jobId = conns[2].id

\* C2: once 'complete' is the first terminal event dispatched on the stream
\* of the current job, the status is success and the connection is closed;
\* and for as long as that stream is the current one, no step (a later
\* message, a transport failure) changes status, log buffer, report or
\* error message.
C2_CompleteIsFinal ==
    /\ [](term = "complete" => status = "success" /\ es \notin Open)
    /\ [][term = "complete" /\ term' = "complete"
            => UNCHANGED <<status, logs, report, errorMessage>>]_vars

\* 'complete' came after two log lines, and a later event arrived
C2_Witness ==
    /\ term = "complete" /\ late
    /\ status = "success"
    /\ Len(logs) = 2
    /\ report = "report82"

\* C3: once an 'error' message or a transport failure is the first terminal
\* event dispatched on the stream of the current job, the status is error and
\* the log buffer is exactly the data of the 'log' messages dispatched on that
\* stream before it, in arrival order.
C3_ErrorKeepsLogs ==
    term \in {"error", "transport"} => status = "error" /\ logs = heard

\* a transport failure after two different log lines
C3_Witness ==
    /\ term = "transport"
    /\ status = "error"
    /\ Len(logs) = 2 /\ logs[1] # logs[2]

\* C4: no download URL is clicked twice; a step that clicks one is the step
\* in which 'complete' becomes the first terminal event of the open stream of
\* the current job and moves the status from loading to success, and the URL
\* is the one of that stream's job id; no 'complete' message without a
\* non-empty filename, and no other stream event, clicks one; a stream that
\* ended in error has no download.
C4_DownloadOnce ==
    /\ [](NoDuplicates(downloads))
    /\ [](term \in {"error", "transport"}
            => ApiDownload(conns[es].id) \notin Range(downloads))
    /\ [][downloads' # downloads
            => /\ es \in Open /\ es \notin {c \in 1..Len(conns') : conns'[c].open}
               /\ conns[es].id = jobId
               /\ term = "none" /\ term' = "complete"
               /\ status = "loading" /\ status' = "success"
               /\ downloads' = Append(downloads, ApiDownload(jobId))
               /\ ~\E c \in Open :
                     \/ StreamFailure(c)
                     \/ \E p \in Payloads :
                          /\ ~(TerminalOf(p) = "complete" /\ Truthy(p.filename))
                          /\ StreamMessage(c, p)]_vars

\* two jobs completed with a filename, one download each
C4_Witness ==
    /\ Len(downloads) = 2
    /\ downloads[1] = ApiDownload(JobIdOf(1))
    /\ downloads[2] = ApiDownload(JobIdOf(2))

\* C5: a step of handleSubmit with an empty URL or no resume file sets the
\* status to error with the validation message, starts no session lookup and
\* no job-start request, and leaves job id, log buffer, report and the
\* stream connections unchanged.
C5_InvalidSubmit ==
    [][HandleSubmit /\ (url = "" \/ resumeFile = Null)
         => /\ status' = "error"
            /\ errorMessage' = MsgValidation
            /\ reqs' = reqs
            /\ UNCHANGED <<jobId, logs, report, conns, es, issued>>]_vars

\* a submission without the file after a job whose stream failed: the job id
\* and the log line of that job are still there
C5_Witness ==
    /\ status = "error"
    /\ errorMessage = MsgValidation
    /\ url # "" /\ resumeFile = Null
    /\ jobId = JobIdOf(1)
    /\ Len(logs) = 1
    /\ reqs = {}

\* C6: a step in which a message that is not valid JSON is dispatched changes
\* neither status, log buffer, report nor error message, closes no connection
\* and clicks no download (the handler's catch block swallows the exception).
C6_MalformedIgnored ==
    [][<<status, logs, report, errorMessage, conns, downloads, term>>'
          # <<status, logs, report, errorMessage, conns, downloads, term>>
         => ~\E c \in Open : \E p \in Payloads :
               /\ p.kind = "malformed"
               /\ StreamMessage(c, p)]_vars

\* a log line was appended on a stream that had dispatched a malformed
\* payload, and the stream is still open
C6_Witness ==
    /\ garbled
    /\ es \in Open
    /\ status = "loading"
    /\ Len(logs) = 1

\* C7: an open connection is always the one of the live effect of the mounted
\* App instance, for the current job id, with no terminal event dispatched;
\* a closed connection never opens again; and while no connection is open no
\* step appends a log line, sets a report, clicks a download or dispatches a
\* terminal event.
C7_ClosedOnEveryExit ==
    /\ [](\A c \in Open :
            /\ mounted /\ conns[c].inst = inst
            /\ c = es
            /\ conns[c].id = jobId
            /\ term = "none")
    /\ [][/\ \A c \in 1..Len(conns) : ~conns[c].open => ~conns'[c].open
          /\ Open = {} =>
               /\ downloads' = downloads
               /\ Len(logs') <= Len(logs)
               /\ report' \in {report, Null}
               /\ term' \in {term, "none"}]_vars

\* App was disposed after its first job had opened a stream; the stream is
\* closed
C7_Witness ==
    /\ ~mounted /\ inst = 1
    /\ Len(conns) = 1 /\ ~conns[1].open
    /\ issued = 1

\* C8: only the newest connection can be open, and it belongs to the current
\* job id of the mounted instance; every line of the log buffer was
\* dispatched on the stream of the live effect; a stream event of a
\* connection whose job id is not the current one changes neither log
\* buffer, report, status, error message nor downloads.
C8_NoCrossTalk ==
    /\ [](/\ \A c \in Open : c = Len(conns) /\ conns[c].id = jobId /\ Owns(c)
          /\ logs = heard)
    /\ [][<<logs, report, status, errorMessage, downloads>>'
            # <<logs, report, status, errorMessage, downloads>>
           => ~\E c \in Open :
                 /\ conns[c].id # jobId
                 /\ \/ StreamFailure(c)
                    \/ \E p \in Payloads : StreamMessage(c, p)]_vars

\* the second job has a log line of its own while the first job's
\* connection exists, closed
C8_Witness ==
    /\ Len(conns) = 2
    /\ ~conns[1].open /\ conns[2].open
    /\ conns[1].id = JobIdOf(1) /\ jobId = JobIdOf(2)
    /\ Len(logs) = 1

\* C9: a step of handleSubmit with a URL and a file sets the status to
\* loading and empties log buffer, report, job id and error message, with
\* the session lookup pending and the job-start request not yet sent; from
\* idle and from error alike.
C9_ValidSubmitClears ==
    [][HandleSubmit /\ url # "" /\ resumeFile # Null
         => /\ status \in {"idle", "error"}
            /\ status' = "loading"
            /\ logs' = <<>>
            /\ report' = Null
            /\ jobId' = Null
            /\ errorMessage' = ""
            /\ reqs' = reqs \cup {[inst |-> inst, phase |-> "session"]}
            /\ ~\E q \in reqs' : q.inst = inst /\ q.phase = "fetch"]_vars

\* a new submission after a job (one stream exists) is waiting for the
\* session
C9_Witness ==
    /\ status = "loading"
    /\ jobId = Null /\ logs = <<>> /\ report = Null /\ errorMessage = ""
    /\ [inst |-> inst, phase |-> "session"] \in reqs
    /\ Len(conns) = 1 /\ conns[1].inst = inst

\* C10: a step in which the job-start request of the mounted instance is
\* answered with a job id keeps the status loading, sets the job id to that
\* id and opens one connection, for exactly that id, every earlier connection
\* being closed.
C10_SuccessOpensStream ==
    [][\A q \in reqs :
          (mounted /\ q.inst = inst /\ FetchSucceeds(q))
            => /\ status = "loading" /\ status' = "loading"
               /\ jobId' = JobIdOf(issued + 1)
               /\ conns' = Append(conns, [id |-> JobIdOf(issued + 1),
                                          inst |-> inst, open |-> TRUE])
               /\ es' = Len(conns')
               /\ \A c \in 1..Len(conns) : ~conns[c].open]_vars

\* the stream of the first job is open and nothing has arrived yet
C10_Witness ==
    /\ status = "loading"
    /\ jobId = JobIdOf(1)
    /\ es = 1 /\ conns[1].open /\ conns[1].id = JobIdOf(1)
    /\ logs = <<>>

\* the requests of the mounted App instance
Own == {q \in reqs : mounted /\ q.inst = inst}

\* C11: a step in which the submission of the mounted instance fails (the
\* session lookup throws, the request is rejected, the response is not ok,
\* or the body of an ok response cannot be read) sets the status to error
\* with the message of the failure, the job id being unset before and after,
\* and opens no connection.
C11_SubmissionFails ==
    [][\A q \in Own :
          (\/ GetSession(q, TRUE)
           \/ \E rsp \in Failures :
                /\ ~rsp.net \/ ~rsp.ok \/ rsp.body # "object"
                /\ FetchFails(q, rsp))
            => /\ status = "loading" /\ status' = "error"
               /\ errorMessage' \in {MsgThrown, "Invalid URL", MsgStartFailed,
                                     MsgServerError, MsgBadJson, MsgNullBody}
               /\ jobId = Null /\ jobId' = Null
               /\ conns' = conns /\ es' = 0
               /\ Open = {}]_vars

\* the body of an ok response was not JSON
C11_Witness ==
    /\ status = "error"
    /\ errorMessage = MsgBadJson
    /\ jobId = Null
    /\ Own = {} /\ Open = {}

\* C12: a step in which an 'error' message or a transport failure is
\* dispatched on a connection of the mounted instance sets the status to
\* error, closes that connection and sets the error message: the data of the
\* message, 'Unknown error during streaming' when the data is empty or
\* absent, 'Lost connection to server' for a transport failure.
C12_StreamFailureMessage ==
    [][\A c \in Open :
          /\ (Owns(c) /\ StreamFailure(c))
               => /\ status' = "error"
                  /\ ~conns'[c].open
                  /\ errorMessage' = MsgLostConnection
          /\ \A p \in Payloads :
               (Owns(c) /\ TerminalOf(p) = "error" /\ StreamMessage(c, p))
                 => /\ status' = "error"
                    /\ ~conns'[c].open
                    /\ errorMessage' = IF p.data \in {"", Undefined}
                                       THEN MsgUnknownStream
                                       ELSE p.data]_vars

\* an 'error' message without data ended the stream
C12_Witness ==
    /\ term = "error"
    /\ status = "error"
    /\ errorMessage = MsgUnknownStream
    /\ es # 0 /\ es \notin Open
    /\ downloads = <<>>

\* C13: the reset step is taken in status success only, and a step of a
\* mounted instance that leaves status success is the reset: it sets the
\* status to idle, clears job id, report and log buffer, and leaves no
\* connection open.
C13_Reset ==
    [][(Reset \/ (mounted /\ mounted' /\ status = "success" /\ status' # "success"))
         => /\ status = "success"
            /\ status' = "idle"
            /\ jobId' = Null
            /\ report' = Null
            /\ logs' = <<>>
            /\ es' = 0
            /\ \A c \in 1..Len(conns') : ~conns'[c].open]_vars

\* the first job completed with a download and the user asked for a new job
C13_Witness ==
    /\ mounted /\ inst = 1
    /\ status = "idle"
    /\ downloads = <<ApiDownload(JobIdOf(1))>>
    /\ jobId = Null /\ report = Null /\ logs = <<>>
    /\ Open = {}

\* C14: a step that enters status loading is handleSubmit with a URL and a
\* file; a step that leaves status error within the mounted instance is that
\* same step (never a stream event, never to success); and while the status
\* is error no connection is created and no request is started except by
\* handleSubmit.
C14_NoAutomaticRetry ==
    [][/\ (status # "loading" /\ status' = "loading")
            => HandleSubmit /\ url # "" /\ resumeFile # Null
       /\ (mounted /\ mounted' /\ status = "error" /\ status' # "error")
            => HandleSubmit /\ status' = "loading"
       /\ (mounted /\ status = "error")
            => /\ Len(conns') = Len(conns)
               /\ (\A c \in 1..Len(conns) : ~conns'[c].open)
               /\ ({q.inst : q \in reqs'} \subseteq {q.inst : q \in reqs}
                     \/ HandleSubmit)]_vars

\* the user submitted again after the stream of the first job had failed;
\* the new request is in flight
C14_Witness ==
    /\ status = "loading"
    /\ issued = 1
    /\ Len(conns) = 1 /\ ~conns[1].open /\ conns[1].inst = inst
    /\ downloads = <<>>
    /\ [inst |-> inst, phase |-> "fetch"] \in reqs

\* C15: while the status of the mounted instance is error no connection is
\* open, and a step that leaves the status error creates no connection and
\* changes neither log buffer nor report (no stream event is delivered), the
\* job id staying as it was.
C15_ErrorHasNoStream ==
    /\ [](mounted /\ status = "error" => Open = {})
    /\ [][(status = "error" /\ status' = "error")
            => /\ conns' = conns
               /\ UNCHANGED <<jobId, logs, report, downloads>>]_vars

\* the stream of the job failed, its job id is still set, and an event that
\* arrived afterwards was not dispatched
C15_Witness ==
    /\ status = "error"
    /\ Truthy(jobId)
    /\ es # 0 /\ conns[es].id = jobId /\ ~conns[es].open
    /\ late

\* the job-start requests sent and not yet answered
InFlight == {q \in reqs : q.phase = "fetch"}

C17_RouteGuard ==
    /\ [](/\ mounted => session /\ ~authLoading /\ route = "/"
          /\ (~authLoading /\ ~session) => route = "/login")
    /\ [][(mounted /\ ~session')
            => /\ ~mounted'
               /\ route' = "/login"
               /\ \A c \in 1..Len(conns') : ~conns'[c].open]_vars

\* the session went away after the first job had opened its stream: App is
\* gone, the location is /login and the connection is closed
C17_Witness ==
    /\ ~mounted /\ ~session /\ ~authLoading
    /\ route = "/login"
    /\ inst = 1 /\ Len(conns) = 1 /\ ~conns[1].open

\* C18: a step of a mounted instance that changes the log buffer either
\* appends one line at its end, that line being the data of a 'log' message
\* dispatched in the step on the stream of the live effect, the status being
\* loading before and after; or empties it, in a valid submission (status
\* becomes loading) or a reset (status success becomes idle).
C18_LogBufferChanges ==
    [][(mounted /\ mounted' /\ logs' # logs)
         => \/ /\ Len(logs') = Len(logs) + 1
               /\ SubSeq(logs', 1, Len(logs)) = logs
               /\ heard' = Append(heard, logs'[Len(logs')])
               /\ status = "loading" /\ status' = "loading"
               /\ es \in Open
            \/ /\ logs' = <<>>
               /\ \/ HandleSubmit /\ status' = "loading"
                  \/ Reset /\ status = "success"]_vars

\* two lines were logged, the stream failed, and a submission without the
\* file followed: the two lines are still there
C18_Witness ==
    /\ status = "error"
    /\ errorMessage = MsgValidation
    /\ term = "transport"
    /\ Len(logs) = 2

\* the message handleSubmit is expected to show for a response that is not
\* ok, parsed telling whether the body counts as one that parses
Expected(rsp, parsed) ==
    IF parsed
    THEN IF rsp.error \notin {Undefined, ""} THEN rsp.error ELSE MsgStartFailed
    ELSE MsgServerError

\* C19 as stated: for a response that is not ok the status becomes error and
\* the message is the error field of the body when the body parses and the
\* field is non-empty, 'Failed to start optimization job.' when the body
\* parses without such a field, 'Server error: <statusText>' when the body
\* cannot be parsed.
C19_AsStated ==
    [][\A q \in Own : \A rsp \in Failures :
          (rsp.net /\ ~rsp.ok /\ FetchFails(q, rsp))
            => /\ status' = "error"
               /\ errorMessage' = Expected(rsp, rsp.body \in {"object", "null"})]_vars

\* C19 (amended): as stated, except that a body that is the JSON literal
\* null counts with the bodies that cannot be parsed: the message is then
\* 'Server error: <statusText>'.
C19_ErrorMessageOfResponse ==
    [][\A q \in Own : \A rsp \in Failures :
          (rsp.net /\ ~rsp.ok /\ FetchFails(q, rsp))
            => /\ status' = "error"
               /\ errorMessage' = Expected(rsp, rsp.body = "object")]_vars

\* the server refused the job with an error field
C19_Witness ==
    /\ status = "error"
    /\ errorMessage = "Invalid URL"
    /\ jobId = Null
    /\ Own = {}

\* C20: the error message is empty whenever the status is idle, loading or
\* success; a step that changes it either sets a non-empty message together
\* with status error, or empties it in a step that makes the status loading
\* or disposes the instance.
C20_OneErrorMessage ==
    /\ [](status \in {"idle", "loading", "success"} => errorMessage = "")
    /\ [][errorMessage' # errorMessage
            => \/ status' = "error" /\ errorMessage' # ""
               \/ /\ errorMessage' = ""
                  /\ status' = "loading" \/ ~mounted']_vars

\* the validation message replaced the message of the failed stream of the
\* first job
C20_Witness ==
    /\ status = "error"
    /\ errorMessage = MsgValidation
    /\ term \in {"error", "transport"}
    /\ jobId = JobIdOf(1)
    /\ url = ""

\* C10 as stated, for every ok response whose body is an object: a step in
\* which the job-start request of the mounted instance succeeds keeps the
\* status loading, sets the job id to the job_id of the response and opens
\* one connection, for exactly that id.
C10_AnySuccess ==
    [][\A q \in Own : \A rsp \in Failures \cup {Started(issued + 1)} :
          (rsp.net /\ rsp.ok /\ rsp.body = "object" /\ FetchSettles(q, rsp))
            => /\ status' = "loading"
               /\ jobId' = rsp.job_id
               /\ conns' = Append(conns, [id |-> rsp.job_id,
                                          inst |-> inst, open |-> TRUE])
               /\ es' = Len(conns')]_vars

\* C21: every element of the log buffer is a string.
C21_LogsAreStrings ==
    \A i \in 1..Len(logs) : logs[i] \notin {Undefined, Null}

\* a report is there: neither null nor undefined
Present(r) == r \notin {Null, Undefined}

\* C22: the report is present exactly when the status is success, and it is
\* never undefined: the report of the 'complete' message, or an empty object
\* when the message has none.
C22_ReportIffSuccess ==
    /\ Present(report) <=> status = "success"
    /\ report # Undefined

\* a 'complete' message without a report left the empty object
C22_Witness ==
    /\ status = "success"
    /\ report = EmptyObject
    /\ term = "complete"

\* C23: while a connection is open the instance is mounted, the status is
\* loading and the job id is the id the connection was opened for; while the
\* status is success the job id is the id of the connection on which
\* 'complete' was dispatched.
C23_StreamStatusJobId ==
    /\ \A c \in Open :
         /\ mounted
         /\ status = "loading"
         /\ jobId = conns[c].id
    /\ status = "success"
         => /\ es # 0
            /\ term = "complete"
            /\ Truthy(jobId)
            /\ jobId = conns[es].id

\* the second job of the instance completed
C23_Witness ==
    /\ status = "success"
    /\ es = 2
    /\ jobId = JobIdOf(2)
    /\ conns[1].inst = conns[2].inst

\* C24: the status of the mounted instance is never loading with no
\* invocation of handleSubmit pending and no connection open (the state in
\* which no response and no stream event is left to end the job).
C24_NeverStuckLoading ==
    (mounted /\ status = "loading") => (Own # {} \/ Open # {})

\* C25: no connection is open while App is not mounted, a step that disposes
\* App leaves none open, and a step in which a request of a disposed
\* instance advances or settles leaves the connections and the App state as
\* they were.
C25_DisposedRequestOpensNothing ==
    /\ [](~mounted => Open = {})
    /\ [][/\ (mounted /\ ~mounted') => \A c \in 1..Len(conns') : ~conns'[c].open
          /\ (reqs' # reqs /\ mounted' = mounted /\ inst' = inst
                /\ {q \in reqs' : q.inst = inst} = {q \in reqs : q.inst = inst})
               => /\ conns' = conns
                  /\ UNCHANGED appState]_vars

\* the request of the disposed first instance was answered with a job id, a
\* second instance is mounted, and no connection was ever created
C25_Witness ==
    /\ mounted /\ inst = 2
    /\ issued = 1
    /\ reqs = {}
    /\ conns = <<>>
    /\ jobId = Null

====
